---------------------------- MODULE Spec2Model ----------------------------
(***************************************************************************)
(* A model of the wind-tunnel helpers: the geometry normaliser and the     *)
(* area estimator of windtunnel/pre_processing.py, the coefficient plot    *)
(* and the wall scene of windtunnel/display.py, and the angle-of-attack    *)
(* sweep of gitRun.py.                                                     *)
(*                                                                         *)
(* Numbers.  The code computes on floats; the model computes on exact      *)
(* rationals.  A mesh of the normaliser is its point set, kept as integer  *)
(* numerators over one common positive denominator (pts, den), reduced to  *)
(* lowest terms, so that two meshes are equal exactly when their points    *)
(* are.  A scalar is a pair <<n, d>> with d > 0.                           *)
(***************************************************************************)
EXTENDS Integers, Sequences, FiniteSets

VARIABLES
    \* ---- geometry normaliser (pre_processing.py) ----
    gpc,            \* "idle" | "ready" | "raised"
    mesh,           \* the caller's current mesh: [pts, den]
    prev,           \* the mesh handed to the last call
    orig,           \* the mesh the caller started from
    max_dimensions, \* the envelope <<Lx, Ly, Lz>>
    ops,            \* the calls made so far, in order
    ret,            \* what the last call returned beside the mesh
    \* ---- compute_projected_area (pre_processing.py) ----
    apc,            \* "idle" | "call" | "done" | "raised"
    amesh,          \* the mesh argument: [cells, dup]
    projection_plane, \* the axis argument
    calls,          \* the library calls made on the mesh, in order
    projected,      \* the mesh handed to project_points_to_plane
    area,           \* the value returned, or the error raised
    \* ---- plot_force_coefficients (display.py) ----
    ppc,            \* "idle" | "call" | "plotted" | "raised"
    file,           \* the lines of the file at force_coefficients_file_path
    coefficient,    \* the coefficient argument
    opened,         \* whether the file has been opened
    time,           \* the time series built
    coeff,          \* the coefficient series built
    perr,           \* the error raised, or "none"
    \* ---- save_mesh_obj (pre_processing.py) ----
    xpc,            \* "idle" | "call" | "exported" | "raised"
    xmesh,          \* the cells of the mesh argument, each a tuple of point ids
    exported,       \* the faces handed to export_mesh, <<>> before
    xerr,           \* the error raised, or "none"
    \* ---- WindTunnelVisualizer (display.py) ----
    vpc,            \* "idle" | "new" | "built"
    box,            \* <<x_min, x_max, y_min, y_max, z_min, z_max>>
    scene,          \* the meshes added to the plotter, in order
    \* ---- the sweep (gitRun.py) ----
    spc,            \* the line the script is at
    loop_i,         \* the loop counter i
    alpha,          \* the angle of attack
    tunnel_angle,   \* rotate_y_degrees of the wind tunnel's object
    tasks,          \* the list tasks
    submitted,      \* the tasks the service holds, in order of submission
    project_tasks,  \* the indices of the tasks added to the project
    machine         \* "running" | "terminated"

geomVars == <<gpc, mesh, prev, orig, max_dimensions, ops, ret>>
areaVars == <<apc, amesh, projection_plane, calls, projected, area>>
plotVars == <<ppc, file, coefficient, opened, time, coeff, perr>>
exportVars == <<xpc, xmesh, exported, xerr>>
vizVars == <<vpc, box, scene>>
sweepVars == <<spc, loop_i, alpha, tunnel_angle, tasks, submitted, project_tasks, machine>>
vars == <<geomVars, areaVars, plotVars, exportVars, vizVars, sweepVars>>

----------------------------------------------------------------------------
\* Bounds of the model.
MaxCoord == 1
MaxOps == 2
MaxVoxels == 5
MaxBigVoxels == 2
MaxRows == 2
MaxCells == 3
MaxBox == 2

----------------------------------------------------------------------------
\* Arithmetic helpers.
Abs(n) == IF n < 0 THEN 0 - n ELSE n

RECURSIVE GCD(_, _)
GCD(a, b) == IF b = 0 THEN a ELSE GCD(b, a % b)

SetMin(S) == CHOOSE m \in S : \A n \in S : m <= n
SetMax(S) == CHOOSE m \in S : \A n \in S : m >= n

RECURSIVE SetGCD(_)
SetGCD(S) ==
    IF S = {} THEN 0
    ELSE LET n == CHOOSE k \in S : TRUE IN GCD(Abs(n), SetGCD(S \ {n}))

\* Rationals <<n, d>>, d > 0.
RatLeq(a, b) == a[1] * b[2] <= b[1] * a[2]
RatEq(a, b) == a[1] * b[2] = b[1] * a[2]
RatReduce(a) == LET g == GCD(Abs(a[1]), a[2]) IN <<a[1] \div g, a[2] \div g>>

\* Python's min(a, b, c): the first of the smallest arguments.
Min3(a, b, c) ==
    IF RatLeq(a, b) /\ RatLeq(a, c) THEN a
    ELSE IF RatLeq(b, c) THEN b
    ELSE c

\* A mesh in lowest terms.
Canon(m) ==
    LET g == GCD(SetGCD({p[i] : p \in m.pts, i \in 1..3}), m.den)
    IN  [pts |-> {<<p[1] \div g, p[2] \div g, p[3] \div g>> : p \in m.pts},
         den |-> m.den \div g]

----------------------------------------------------------------------------
\* pyvista.PolyData of the normaliser: bounds, scale, translate.

\* mesh.bounds: (xmin, xmax, ymin, ymax, zmin, zmax), as numerators over m.den.
\* Python indexes it from 0, the model from 1.
Bounds(m) ==
    <<SetMin({p[1] : p \in m.pts}), SetMax({p[1] : p \in m.pts}),
      SetMin({p[2] : p \in m.pts}), SetMax({p[2] : p \in m.pts}),
      SetMin({p[3] : p \in m.pts}), SetMax({p[3] : p \in m.pts})>>

\* A scale about the mesh's lowest corner in the place of the coordinate origin.
ScaleAboutCorner(m, f) ==
    LET c == <<SetMin({p[1] : p \in m.pts}), SetMin({p[2] : p \in m.pts}),
               SetMin({p[3] : p \in m.pts})>>
    IN  Canon([pts |-> {<<(p[1] - c[1]) * f[1] + c[1] * f[2],
                          (p[2] - c[2]) * f[1] + c[2] * f[2],
                          (p[3] - c[3]) * f[1] + c[3] * f[2]>> : p \in m.pts},
               den |-> m.den * f[2]])

\* mesh.scale(f): every point times f, about the coordinate origin.
Scale(m, f) ==
    Canon([pts |-> {<<p[1] * f[1], p[2] * f[1], p[3] * f[1]>> : p \in m.pts},
           den |-> m.den * f[2]])

\* mesh.translate(v), v = [num |-> <<vx, vy, vz>>, den |-> d].
Translate(m, v) ==
    Canon([pts |-> {<<p[1] * v.den + v.num[1] * m.den,
                      p[2] * v.den + v.num[2] * m.den,
                      p[3] * v.den + v.num[3] * m.den>> : p \in m.pts},
           den |-> m.den * v.den])

\* A vector in lowest terms.
VecReduce(v) ==
    LET g == GCD(SetGCD({v.num[i] : i \in 1..3}), v.den)
    IN  [num |-> <<v.num[1] \div g, v.num[2] \div g, v.num[3] \div g>>,
         den |-> v.den \div g]

----------------------------------------------------------------------------
\* pre_processing.py

\* The three bounding extents, as numerators over m.den.
Extents(m) ==
    LET b == Bounds(m) IN <<b[2] - b[1], b[4] - b[3], b[6] - b[5]>>

\* A float division by 0.0 raises ZeroDivisionError.
Degenerate(m) == \E i \in 1..3 : Extents(m)[i] = 0

\* Python's max in the place of min: the least restrictive factor.
Max3(a, b, c) ==
    IF RatLeq(b, a) /\ RatLeq(c, a) THEN a
    ELSE IF RatLeq(c, b) THEN b
    ELSE c

GetScalingFactorMax(m, dims) ==
    LET e == Extents(m)
    IN  RatReduce(Max3(<<dims[1] * m.den, e[1]>>, <<dims[2] * m.den, e[2]>>,
                       <<dims[3] * m.den, e[3]>>))

\* _get_scaling_factor, for a mesh no extent of which is zero:
\* L / (extent / den) = L * den / extent.
GetScalingFactor(m, dims) ==
    LET e == Extents(m)
        scaling_factor_x == <<dims[1] * m.den, e[1]>>
        scaling_factor_y == <<dims[2] * m.den, e[2]>>
        scaling_factor_z == <<dims[3] * m.den, e[3]>>
    IN  RatReduce(Min3(scaling_factor_x, scaling_factor_y, scaling_factor_z))

\* The z midpoint in the place of the lowest z.
DisplaceVectorZMid(m) ==
    LET b == Bounds(m)
    IN  VecReduce([num |-> <<0 - (b[1] + b[2]), 0 - (b[3] + b[4]),
                             0 - (b[5] + b[6])>>,
                   den |-> 2 * m.den])

\* move_mesh_to_origin's displace_vector.
DisplaceVector(m) ==
    LET b == Bounds(m)
        z_displace == <<b[5], m.den>>
        y_displace == <<b[3] + b[4], 2 * m.den>>
        x_displace == <<b[1] + b[2], 2 * m.den>>
    IN  VecReduce([num |-> <<0 - x_displace[1], 0 - y_displace[1],
                             0 - 2 * z_displace[1]>>,
                   den |-> 2 * m.den])

Coords == (0 - 1)..MaxCoord
Points == Coords \X Coords \X Coords

\* The input meshes: every mesh of one or two grid points.  A transform acts
\* point by point and the bounds are the per-axis minimum and maximum, so two
\* points span every bounding box of the grid.
InputMeshes ==
    {[pts |-> {p, q}, den |-> 1] : p \in Points, q \in Points}

\* The envelopes: the default of pre_processing.py:15 and three others.
Envelopes == {<<10, 2, 1>>, <<1, 1, 1>>, <<2, 3, 1>>, <<3, 1, 2>>}

NoMesh == [pts |-> {}, den |-> 1]
NoRet == [kind |-> "none"]

InitGeom ==
    /\ gpc = "ready"
    /\ mesh \in InputMeshes
    /\ prev = mesh
    /\ orig = mesh
    /\ max_dimensions \in Envelopes
    /\ ops = <<>>
    /\ ret = NoRet

IdleGeom ==
    /\ gpc = "idle"
    /\ mesh = NoMesh
    /\ prev = NoMesh
    /\ orig = NoMesh
    /\ max_dimensions = <<10, 2, 1>>
    /\ ops = <<>>
    /\ ret = NoRet

\* normalize_mesh(mesh, max_dimensions), the caller rebinding its mesh to the
\* result.
NormalizeMesh ==
    /\ gpc = "ready"
    /\ Len(ops) < MaxOps
    /\ ~Degenerate(mesh)
    /\ LET scaling_factor == GetScalingFactor(mesh, max_dimensions)
       IN  /\ mesh' = Scale(mesh, scaling_factor)
           /\ ret' = [kind |-> "factor", factor |-> scaling_factor]
    /\ prev' = mesh
    /\ ops' = Append(ops, "normalize")
    /\ UNCHANGED <<gpc, orig, max_dimensions, areaVars, plotVars, exportVars, vizVars, sweepVars>>

\* normalize_mesh on a mesh with a zero extent: the division raises.
NormalizeMeshRaises ==
    /\ gpc = "ready"
    /\ Len(ops) < MaxOps
    /\ Degenerate(mesh)
    /\ gpc' = "raised"
    /\ ret' = [kind |-> "ZeroDivisionError"]
    /\ prev' = mesh
    /\ ops' = Append(ops, "normalize")
    /\ UNCHANGED <<mesh, orig, max_dimensions, areaVars, plotVars, exportVars, vizVars, sweepVars>>

\* move_mesh_to_origin(mesh), the caller rebinding its mesh to the result.
MoveMeshToOrigin ==
    /\ gpc = "ready"
    /\ Len(ops) < MaxOps
    /\ LET displace_vector == DisplaceVector(mesh)
       IN  /\ mesh' = Translate(mesh, displace_vector)
           /\ ret' = [kind |-> "displacement", vector |-> displace_vector]
    /\ prev' = mesh
    /\ ops' = Append(ops, "move")
    /\ UNCHANGED <<gpc, orig, max_dimensions, areaVars, plotVars, exportVars, vizVars, sweepVars>>

NextGeom == NormalizeMesh \/ NormalizeMeshRaises \/ MoveMeshToOrigin


----------------------------------------------------------------------------
\* compute_projected_area (pre_processing.py).
\*
\* A mesh of the estimator is its cells: a cell is a tuple of three (triangle)
\* or four (quad) points with integer coordinates, and dup is the number of
\* coincident copies of every cell the mesh holds, which is how the model
\* reaches meshes of more than NUM_DECIMATION_CELLS cells.  The cells are
\* faces of unit cubes, so that the projection of a triangle is one half of a
\* unit square or a segment: a region of the projection plane is a set of
\* quarter squares <<x, y, q>>, q the side (S, E, N, W) of the unit square at
\* (x, y) the quarter leans on, and an area is a number of quarters (4 to the
\* square unit).

NUM_DECIMATION_CELLS == 5000

\* mesh.n_cells
NCells(m) == Cardinality(m.cells) * m.dup

\* vtkTriangleFilter on one cell: a quad (a, b, c, d) splits along a-c.
TriangulateCell(c) ==
    IF Len(c) = 4 THEN {<<c[1], c[2], c[3]>>, <<c[1], c[3], c[4]>>} ELSE {c}

TriangulateAll(cells) == UNION {TriangulateCell(c) : c \in cells}

\* mesh.triangulate()
Triangulate(m) == [cells |-> TriangulateAll(m.cells), dup |-> m.dup]

\* The results vtkQuadricDecimation may give for a target reduction in (0, 1):
\* the triangles of the input thinned to the target number of cells, with or
\* without one triangle of the surface lost.
Decimated(m, factor) ==
    LET target == (NCells(m) * (factor[2] - factor[1])) \div factor[2]
        kept == {m.cells} \cup {m.cells \ {c} : c \in m.cells}
    IN  {[cells |-> C, dup |-> target \div Cardinality(C)] :
            C \in {K \in kept : K # {} /\ Cardinality(K) <= target}}

\* mesh.decimate(target_reduction): VTK clamps the target reduction to [0, 1],
\* and a reduction of 0 removes nothing.
DecimateOutcomes(m, factor) ==
    IF factor[1] <= 0 THEN {m}
    ELSE IF Decimated(m, factor) = {} THEN {m}
    ELSE Decimated(m, factor)

\* The branch of lines 109-119: the two coordinates kept, and the plane normal.
Indices(plane) ==
    CASE plane = "X" -> <<2, 3>>
      [] plane = "Y" -> <<1, 3>>
      [] plane = "Z" -> <<1, 2>>

Normal(plane) ==
    CASE plane = "X" -> <<1, 0, 0>>
      [] plane = "Y" -> <<0, 1, 0>>
      [] plane = "Z" -> <<0, 0, 1>>

\* project_points_to_plane(origin=(0, 0, 0), normal): p - (p . n) n.
ProjectPoint(p, n) ==
    LET dot == p[1] * n[1] + p[2] * n[2] + p[3] * n[3]
    IN  <<p[1] - dot * n[1], p[2] - dot * n[2], p[3] - dot * n[3]>>

ProjectCell(c, n) == [i \in 1..Len(c) |-> ProjectPoint(c[i], n)]

\* mesh_2d.points[tri][:, indices]
Flatten(c, indices) == [i \in 1..Len(c) |-> <<c[i][indices[1]], c[i][indices[2]]>>]

\* shapely.Polygon of three points of the unit grid, as the region it covers:
\* nothing when the points are on one line, and else the two quarters that
\* lean on the legs of the right angle.
Polygon(t) ==
    LET xs == {t[i][1] : i \in 1..3}
        ys == {t[i][2] : i \in 1..3}
        x0 == SetMin(xs)
        y0 == SetMin(ys)
        corner == CHOOSE i \in 1..3 :
                      \A j \in (1..3) \ {i} :
                          (t[j][1] = t[i][1]) # (t[j][2] = t[i][2])
        sideX == IF t[corner][1] = x0 THEN "W" ELSE "E"
        sideY == IF t[corner][2] = y0 THEN "S" ELSE "N"
    IN  IF Cardinality(xs) < 2 \/ Cardinality(ys) < 2 THEN {}
        ELSE {<<x0, y0, sideX>>, <<x0, y0, sideY>>}

\* The polygons of line 129-132, one for every triangle of the projected mesh.
Polygons(m, plane) ==
    {Polygon(Flatten(ProjectCell(t, Normal(plane)), Indices(plane))) :
        t \in TriangulateAll(m.cells)}

\* The polygon of one triangle of the mesh.
PolygonOf(t, plane) ==
    Polygon(Flatten(ProjectCell(t, Normal(plane)), Indices(plane)))

\* The areas of the polygons of a set of triangles, added up.
RECURSIVE SumPolygons(_, _)
SumPolygons(T, plane) ==
    IF T = {} THEN 0
    ELSE LET t == CHOOSE k \in T : TRUE
         IN  Cardinality(PolygonOf(t, plane)) + SumPolygons(T \ {t}, plane)

\* The sum of the areas in the place of the area of the union.
SumArea(m, plane) == m.dup * SumPolygons(Triangulate(m).cells, plane)

\* shapely.union_all(polygons).area
UnionArea(m, plane) == Cardinality(UNION Polygons(m, plane))

\* The input meshes: the surface of a solid of unit cubes, as quads or as
\* triangles, every face once or, for the smaller solids, 500 or 501 times.
Voxels == {<<x, y, 0>> : x \in 0..2, y \in 0..1}

Side(v, d) ==
    LET x == v[1]
        y == v[2]
        z == v[3]
    IN  CASE d = "x-" -> <<<<x, y, z>>, <<x, y, z + 1>>, <<x, y + 1, z + 1>>, <<x, y + 1, z>>>>
          [] d = "x+" -> <<<<x + 1, y, z>>, <<x + 1, y + 1, z>>, <<x + 1, y + 1, z + 1>>, <<x + 1, y, z + 1>>>>
          [] d = "y-" -> <<<<x, y, z>>, <<x + 1, y, z>>, <<x + 1, y, z + 1>>, <<x, y, z + 1>>>>
          [] d = "y+" -> <<<<x + 1, y + 1, z>>, <<x, y + 1, z>>, <<x, y + 1, z + 1>>, <<x + 1, y + 1, z + 1>>>>
          [] d = "z-" -> <<<<x, y, z>>, <<x, y + 1, z>>, <<x + 1, y + 1, z>>, <<x + 1, y, z>>>>
          [] d = "z+" -> <<<<x + 1, y, z + 1>>, <<x + 1, y + 1, z + 1>>, <<x, y + 1, z + 1>>, <<x, y, z + 1>>>>

Neighbour(v, d) ==
    CASE d = "x-" -> <<v[1] - 1, v[2], v[3]>>
      [] d = "x+" -> <<v[1] + 1, v[2], v[3]>>
      [] d = "y-" -> <<v[1], v[2] - 1, v[3]>>
      [] d = "y+" -> <<v[1], v[2] + 1, v[3]>>
      [] d = "z-" -> <<v[1], v[2], v[3] - 1>>
      [] d = "z+" -> <<v[1], v[2], v[3] + 1>>

Sides == {"x-", "x+", "y-", "y+", "z-", "z+"}

Surface(V) ==
    UNION {{Side(v, d) : d \in {e \in Sides : Neighbour(v, e) \notin V}} : v \in V}

Solids == {V \in SUBSET Voxels : Cardinality(V) <= MaxVoxels}

QuadMeshes ==
    {[cells |-> Surface(V), dup |-> 1] : V \in Solids}
    \cup {[cells |-> Surface(V), dup |-> k] :
            V \in {W \in Solids : Cardinality(W) <= MaxBigVoxels},
            k \in {500, 501}}

AreaMeshes == QuadMeshes \cup {Triangulate(m) : m \in QuadMeshes}

Planes == {"X", "Y", "Z", "x", "W"}

NoArea == [kind |-> "none"]
NoAreaMesh == [cells |-> {}, dup |-> 1]

InitAreaCall ==
    /\ apc = "call"
    /\ amesh \in AreaMeshes
    /\ projection_plane \in Planes
    /\ calls = <<>>
    /\ projected = NoAreaMesh
    /\ area = NoArea

IdleArea ==
    /\ apc = "idle"
    /\ amesh = NoAreaMesh
    /\ projection_plane = "X"
    /\ calls = <<>>
    /\ projected = NoAreaMesh
    /\ area = NoArea

\* The check of the plane made after line 121 has read the mesh.
InvalidProjectionPlaneLate ==
    /\ apc = "call"
    /\ projection_plane \notin {"X", "Y", "Z"}
    /\ apc' = "raised"
    /\ calls' = <<"n_cells">>
    /\ area' = [kind |-> "ValueError"]
    /\ UNCHANGED <<amesh, projection_plane, projected, geomVars, plotVars, exportVars, vizVars, sweepVars>>

\* Lines 109-119: a plane other than 'X', 'Y', 'Z' raises before anything else.
InvalidProjectionPlane ==
    /\ apc = "call"
    /\ projection_plane \notin {"X", "Y", "Z"}
    /\ apc' = "raised"
    /\ area' = [kind |-> "ValueError"]
    /\ UNCHANGED <<amesh, projection_plane, calls, projected, geomVars, plotVars, exportVars, vizVars, sweepVars>>

\* Line 121 on a mesh without cells: the division raises.
NoCellsRaises ==
    /\ apc = "call"
    /\ projection_plane \in {"X", "Y", "Z"}
    /\ NCells(amesh) = 0
    /\ apc' = "raised"
    /\ calls' = <<"n_cells">>
    /\ area' = [kind |-> "ZeroDivisionError"]
    /\ UNCHANGED <<amesh, projection_plane, projected, geomVars, plotVars, exportVars, vizVars, sweepVars>>

\* Lines 121-134.
ComputeProjectedArea ==
    /\ apc = "call"
    /\ projection_plane \in {"X", "Y", "Z"}
    /\ NCells(amesh) # 0
    /\ LET decimation_factor ==
               <<NCells(amesh) - NUM_DECIMATION_CELLS, NCells(amesh)>>
           triangulated ==
               IF decimation_factor[1] < decimation_factor[2]
               THEN Triangulate(amesh) ELSE amesh
           first == IF decimation_factor[1] < decimation_factor[2]
                    THEN <<"n_cells", "triangulate">> ELSE <<"n_cells">>
       IN  \E decimated \in DecimateOutcomes(triangulated, decimation_factor) :
               /\ projected' = decimated
               /\ calls' = first \o <<"decimate", "project_points_to_plane",
                                      "triangulate_2d", "union_all">>
               /\ area' = [kind |-> "area",
                           quarters |-> UnionArea(decimated, projection_plane)]
    /\ apc' = "done"
    /\ UNCHANGED <<amesh, projection_plane, geomVars, plotVars, exportVars, vizVars, sweepVars>>

NextArea == InvalidProjectionPlane \/ NoCellsRaises \/ ComputeProjectedArea

----------------------------------------------------------------------------
\* plot_force_coefficients (display.py).
\*
\* A line of the file is a sequence of items, an item a run of blanks (" ")
\* or a word; a number is kept in tenths.

\* str.lower() on the names the model passes.
Lower(name) ==
    CASE name \in {"Drag", "DRAG", "drag"} -> "drag"
      [] name \in {"Moment", "moment"} -> "moment"
      [] name \in {"Lift", "lift"} -> "lift"
      [] name \in {"Front Lift", "front lift"} -> "front lift"
      [] name \in {"REAR LIFT", "rear lift"} -> "rear lift"
      [] name = "Thrust" -> "thrust"
      [] name = "front_lift" -> "front_lift"
      [] name = "" -> ""

\* coeffs_map, lines 58-64.
CoeffsMap ==
    [n \in {"moment", "drag", "lift", "front lift", "rear lift"} |->
        CASE n = "moment" -> 1
          [] n = "drag" -> 2
          [] n = "lift" -> 3
          [] n = "front lift" -> 4
          [] n = "rear lift" -> 5]

\* The lines next(file) skips, line 73.
HeaderLines == 9

\* str.split(): the words of a line, blanks dropped.
Split(line) == SelectSeq(line, LAMBDA item : item # " ")

\* The words float() accepts, with their values in tenths.
IsNumber(word) == word \in {"0.0", "0.1", "0.2", "0.3", "0.5", "1.2", "1.20", ".5"}
Float(word) ==
    CASE word = "0.0" -> 0
      [] word = "0.1" -> 1
      [] word = "0.2" -> 2
      [] word = "0.3" -> 3
      [] word \in {"0.5", ".5"} -> 5
      [] word \in {"1.2", "1.20"} -> 12

\* One more line skipped than line 73 does.
RestAfterTen(lines) == SubSeq(lines, HeaderLines + 2, Len(lines))

\* The lines left to the loop of line 76 once the header is skipped.
RestAfterHeader(lines) == SubSeq(lines, HeaderLines + 1, Len(lines))

\* What lines 77-79 raise on one line, or "none".
RowError(line, column) ==
    LET columns == Split(line)
    IN  IF Len(columns) < 1 THEN "IndexError"
        ELSE IF ~IsNumber(columns[1]) THEN "ValueError"
        ELSE IF Len(columns) < column + 1 THEN "IndexError"
        ELSE IF ~IsNumber(columns[column + 1]) THEN "ValueError"
        ELSE "none"

\* The loop of lines 76-79 from series (t, c) on: the series built and the
\* error that ended the loop, if any.
RECURSIVE ParseRows(_, _, _, _)
ParseRows(lines, column, t, c) ==
    IF lines = <<>> THEN [time |-> t, coeff |-> c, err |-> "none"]
    ELSE IF RowError(Head(lines), column) # "none"
    THEN [time |-> IF Len(Split(Head(lines))) >= 1 /\ IsNumber(Split(Head(lines))[1])
                   THEN Append(t, Float(Split(Head(lines))[1])) ELSE t,
          coeff |-> c,
          err |-> RowError(Head(lines), column)]
    ELSE ParseRows(Tail(lines), column,
                   Append(t, Float(Split(Head(lines))[1])),
                   Append(c, Float(Split(Head(lines))[column + 1])))

\* The files: a header and up to MaxRows rows.
ExampleRow == <<"0.1", " ", "0.0", " ", "1.2", " ", "0.5", " ", "0.3", " ", "0.2">>
PaddedRow == <<" ", "0.2", " ", "1.20", " ", ".5", " ", "0.3", " ", "0.0", " ", "0.1", " ">>
ShortRow == <<"0.3", " ", "0.1">>
WordRow == <<"0.3", " ", "nan?", " ", "x", " ", "x", " ", "x", " ", "x">>
CommentLine == <<"#", " ", "Time", " ", "Cm", " ", "Cd", " ", "Cl">>
BlankLine == <<>>

Rows == {ExampleRow, PaddedRow, ShortRow, WordRow, BlankLine}

RowSeqs == UNION {[1..n -> Rows] : n \in 0..MaxRows}

Headers ==
    {[i \in 1..HeaderLines |-> CommentLine],
     [i \in 1..HeaderLines |-> ExampleRow],
     [i \in 1..HeaderLines |-> IF i % 2 = 0 THEN BlankLine ELSE WordRow],
     [i \in 1..(HeaderLines - 1) |-> CommentLine],
     <<>>}

Files == {h \o r : h \in Headers, r \in RowSeqs}

Names == {"Drag", "DRAG", "drag", "Moment", "lift", "Front Lift", "REAR LIFT",
          "Thrust", "front_lift", ""}

InitPlotCall ==
    /\ ppc = "call"
    /\ file \in Files
    /\ coefficient \in Names
    /\ opened = FALSE
    /\ time = <<>>
    /\ coeff = <<>>
    /\ perr = "none"

IdlePlot ==
    /\ ppc = "idle"
    /\ file = <<>>
    /\ coefficient = ""
    /\ opened = FALSE
    /\ time = <<>>
    /\ coeff = <<>>
    /\ perr = "none"

\* Lines 57-67: a name that is not in coeffs_map raises before the file is
\* opened.
InvalidCoefficient ==
    /\ ppc = "call"
    /\ Lower(coefficient) \notin DOMAIN CoeffsMap
    /\ ppc' = "raised"
    /\ perr' = "ValueError"
    /\ UNCHANGED <<file, coefficient, opened, time, coeff, geomVars, areaVars, exportVars, vizVars, sweepVars>>

\* Lines 72-74 on a file of fewer than nine lines: next(file) raises.
HeaderTooShort ==
    /\ ppc = "call"
    /\ Lower(coefficient) \in DOMAIN CoeffsMap
    /\ Len(file) < HeaderLines
    /\ ppc' = "raised"
    /\ opened' = TRUE
    /\ perr' = "StopIteration"
    /\ UNCHANGED <<file, coefficient, time, coeff, geomVars, areaVars, exportVars, vizVars, sweepVars>>

\* Lines 69-87.
PlotForceCoefficients ==
    /\ ppc = "call"
    /\ Lower(coefficient) \in DOMAIN CoeffsMap
    /\ Len(file) >= HeaderLines
    /\ LET parsed == ParseRows(RestAfterHeader(file),
                               CoeffsMap[Lower(coefficient)], <<>>, <<>>)
       IN  /\ time' = parsed.time
           /\ coeff' = parsed.coeff
           /\ perr' = parsed.err
           /\ ppc' = IF parsed.err = "none" THEN "plotted" ELSE "raised"
    /\ opened' = TRUE
    /\ UNCHANGED <<file, coefficient, geomVars, areaVars, exportVars, vizVars, sweepVars>>

NextPlot == InvalidCoefficient \/ HeaderTooShort \/ PlotForceCoefficients

----------------------------------------------------------------------------
\* save_mesh_obj (pre_processing.py).

\* mesh.get_cell(k).type, by the number of points of the cell.
CellType(c) ==
    CASE Len(c) = 3 -> "TRIANGLE"
      [] Len(c) = 4 -> "QUAD"
      [] OTHER -> "POLYGON"

\* mesh.faces: every cell as its number of points followed by its point ids.
RECURSIVE Faces(_)
Faces(cells) ==
    IF cells = <<>> THEN <<>>
    ELSE <<Len(Head(cells))>> \o Head(cells) \o Faces(Tail(cells))

\* faces.reshape((-1, shape_vertices))[:, 1:], for a length that divides.
ReshapeAndStrip(faces, shape_vertices) ==
    [r \in 1..(Len(faces) \div shape_vertices) |->
        SubSeq(faces, (r - 1) * shape_vertices + 2, r * shape_vertices)]

\* The cells of a mesh whose cells have the given numbers of points and share
\* no point: ids from 0 on.
RECURSIVE CellsFrom(_, _)
CellsFrom(counts, start) ==
    IF counts = <<>> THEN <<>>
    ELSE <<[k \in 1..Head(counts) |-> start + k - 1]>>
             \o CellsFrom(Tail(counts), start + Head(counts))

ExportMeshes ==
    {CellsFrom(counts, 0) : counts \in UNION {[1..n -> {3, 4, 5, 7}] : n \in 1..MaxCells}}

InitExportCall ==
    /\ xpc = "call"
    /\ xmesh \in ExportMeshes
    /\ exported = <<>>
    /\ xerr = "none"

IdleExport ==
    /\ xpc = "idle"
    /\ xmesh = <<>>
    /\ exported = <<>>
    /\ xerr = "none"

\* shape_vertices of lines 148-151, for a first cell that is a triangle or a quad.
ShapeVertices == IF CellType(xmesh[1]) = "TRIANGLE" THEN 4 ELSE 5

\* Lines 145-153: the first cell is neither a triangle nor a quad.
UnsupportedCellType ==
    /\ xpc = "call"
    /\ CellType(xmesh[1]) \notin {"TRIANGLE", "QUAD"}
    /\ xpc' = "raised"
    /\ xerr' = "Mesh cell type not supported"
    /\ UNCHANGED <<xmesh, exported, geomVars, areaVars, plotVars, vizVars, sweepVars>>

\* Lines 156-157: numpy cannot reshape an array whose length shape_vertices
\* does not divide.
ReshapeRaises ==
    /\ xpc = "call"
    /\ CellType(xmesh[1]) \in {"TRIANGLE", "QUAD"}
    /\ Len(Faces(xmesh)) % ShapeVertices # 0
    /\ xpc' = "raised"
    /\ xerr' = "cannot reshape array"
    /\ UNCHANGED <<xmesh, exported, geomVars, areaVars, plotVars, vizVars, sweepVars>>

\* Lines 145-158, to the export.
SaveMeshObj ==
    /\ xpc = "call"
    /\ CellType(xmesh[1]) \in {"TRIANGLE", "QUAD"}
    /\ Len(Faces(xmesh)) % ShapeVertices = 0
    /\ xpc' = "exported"
    /\ exported' = ReshapeAndStrip(Faces(xmesh), ShapeVertices)
    /\ UNCHANGED <<xmesh, xerr, geomVars, areaVars, plotVars, vizVars, sweepVars>>

NextExport == UnsupportedCellType \/ ReshapeRaises \/ SaveMeshObj

----------------------------------------------------------------------------
\* WindTunnelVisualizer (display.py).  A centre is kept doubled, so that a
\* midpoint is an integer.

\* The plane with i_size and j_size exchanged.
GetYAlignedRectangleSwapped(y, x_min, x_max, z_min, z_max) ==
    [center2 |-> <<x_min + x_max, 2 * y, z_min + z_max>>,
     direction |-> <<0, 1, 0>>,
     i_size |-> x_max - x_min,
     j_size |-> z_max - z_min]

GetXAlignedRectangle(x, y_min, y_max, z_min, z_max) ==
    [center2 |-> <<2 * x, y_min + y_max, z_min + z_max>>,
     direction |-> <<1, 0, 0>>,
     i_size |-> z_max - z_min,
     j_size |-> y_max - y_min]

GetYAlignedRectangle(y, x_min, x_max, z_min, z_max) ==
    [center2 |-> <<x_min + x_max, 2 * y, z_min + z_max>>,
     direction |-> <<0, 1, 0>>,
     i_size |-> z_max - z_min,
     j_size |-> x_max - x_min]

GetZAlignedRectangle(z, x_min, x_max, y_min, y_max) ==
    [center2 |-> <<x_min + x_max, y_min + y_max, 2 * z>>,
     direction |-> <<0, 0, 1>>,
     i_size |-> x_max - x_min,
     j_size |-> y_max - y_min]

\* self.plt.add_mesh(plane, ...) of _add_walls, and of _add_origin_sphere.
Wall(plane, color, show_edges) ==
    [kind |-> "plane", plane |-> plane, color |-> color, show_edges |-> show_edges]

OriginSphere == [kind |-> "sphere", center2 |-> <<0, 0, 0>>, color |-> "black"]

\* _add_walls: the panels it adds, in order.
AddWalls(b) ==
    <<Wall(GetXAlignedRectangle(b[1], b[3], b[4], b[5], b[6]), "red", FALSE),
      Wall(GetXAlignedRectangle(b[2], b[3], b[4], b[5], b[6]), "red", TRUE),
      Wall(GetYAlignedRectangle(b[3], b[1], b[2], b[5], b[6]), "green", TRUE),
      Wall(GetZAlignedRectangle(b[5], b[1], b[2], b[3], b[4]), "blue", TRUE)>>

Boxes ==
    {<<x0, x1, y0, y1, z0, z1>> :
        x0 \in (0 - MaxBox)..0, x1 \in 1..MaxBox,
        y0 \in (0 - MaxBox)..0, y1 \in 1..MaxBox,
        z0 \in (0 - MaxBox)..0, z1 \in 1..MaxBox}

InitVizCall ==
    /\ vpc = "new"
    /\ box \in Boxes
    /\ scene = <<>>

IdleViz ==
    /\ vpc = "idle"
    /\ box = <<0, 1, 0, 1, 0, 1>>
    /\ scene = <<>>

\* WindTunnelVisualizer.__init__: the walls, then the sphere at the origin.
Construct ==
    /\ vpc = "new"
    /\ vpc' = "built"
    /\ scene' = AddWalls(box) \o <<OriginSphere>>
    /\ UNCHANGED <<box, geomVars, areaVars, plotVars, exportVars, sweepVars>>

NextViz == Construct

----------------------------------------------------------------------------
\* The sweep (gitRun.py), a statement of the script at a time.  The service
\* runs a task to its end when the script waits for it.

DATASET_SIZE == 41

InitSweepRun ==
    /\ spc = "set_object"
    /\ loop_i = 0
    /\ alpha = 0 - 20
    /\ tunnel_angle = 0
    /\ tasks = <<>>
    /\ submitted = <<>>
    /\ project_tasks = {}
    /\ machine = "running"

IdleSweep ==
    /\ spc = "idle"
    /\ loop_i = 0
    /\ alpha = 0 - 20
    /\ tunnel_angle = 0
    /\ tasks = <<>>
    /\ submitted = <<>>
    /\ project_tasks = {}
    /\ machine = "running"

\* Lines 19-32: the next turn of the loop, a new wind tunnel with the object
\* rotated by alpha.
SetObject ==
    /\ spc = "set_object"
    /\ loop_i < DATASET_SIZE
    /\ tunnel_angle' = alpha
    /\ spc' = "simulate"
    /\ UNCHANGED <<loop_i, alpha, tasks, submitted, project_tasks, machine,
                   geomVars, areaVars, plotVars, exportVars, vizVars>>

\* Lines 35-42: display, then submit the simulation.
Simulate ==
    /\ spc = "simulate"
    /\ submitted' = Append(submitted,
                           [angle |-> tunnel_angle, status |-> "submitted",
                            metadata |-> <<>>])
    /\ spc' = "add_task"
    /\ UNCHANGED <<loop_i, alpha, tunnel_angle, tasks, project_tasks, machine,
                   geomVars, areaVars, plotVars, exportVars, vizVars>>

\* Line 44.
AddTask ==
    /\ spc = "add_task"
    /\ project_tasks' = project_tasks \cup {Len(submitted)}
    /\ spc' = "wait"
    /\ UNCHANGED <<loop_i, alpha, tunnel_angle, tasks, submitted, machine,
                   geomVars, areaVars, plotVars, exportVars, vizVars>>

\* Lines 46-48: wait for the task, then the next angle.
WaitTask ==
    /\ spc = "wait"
    /\ submitted' = [submitted EXCEPT ![Len(submitted)].status = "done"]
    /\ alpha' = alpha + 1
    /\ loop_i' = loop_i + 1
    /\ spc' = "set_object"
    /\ UNCHANGED <<tunnel_angle, tasks, project_tasks, machine,
                   geomVars, areaVars, plotVars, exportVars, vizVars>>

\* task.set_metadata({"angle_of_attack": str(alpha)}) for every pair of a
\* list of (task, alpha) pairs, a task being its index in submitted; the
\* metadata of a task is <<>> until it is set, and str(alpha) is kept as the
\* integer it prints.
RECURSIVE SetMetadataAll(_, _)
SetMetadataAll(pairs, held) ==
    IF pairs = <<>> THEN held
    ELSE SetMetadataAll(Tail(pairs),
                        [held EXCEPT ![Head(pairs)[1]].metadata =
                                         <<"angle_of_attack", Head(pairs)[2]>>])

\* Lines 52-54: the loop over tasks, once the sweep loop has ended.
MetadataLoop ==
    /\ spc = "set_object"
    /\ loop_i >= DATASET_SIZE
    /\ submitted' = SetMetadataAll(tasks, submitted)
    /\ spc' = "project_wait"
    /\ UNCHANGED <<loop_i, alpha, tunnel_angle, tasks, project_tasks, machine,
                   geomVars, areaVars, plotVars, exportVars, vizVars>>

\* Lines 56-57.
Terminate ==
    /\ spc = "project_wait"
    /\ machine' = "terminated"
    /\ spc' = "end"
    /\ UNCHANGED <<loop_i, alpha, tunnel_angle, tasks, submitted, project_tasks,
                   geomVars, areaVars, plotVars, exportVars, vizVars>>

NextSweep ==
    SetObject \/ Simulate \/ AddTask \/ WaitTask \/ MetadataLoop \/ Terminate

----------------------------------------------------------------------------
\* Specifications: one per component, the others idle.

InitG == InitGeom /\ IdleArea /\ IdlePlot /\ IdleExport /\ IdleViz /\ IdleSweep
InitA == IdleGeom /\ InitAreaCall /\ IdlePlot /\ IdleExport /\ IdleViz /\ IdleSweep
InitP == IdleGeom /\ IdleArea /\ InitPlotCall /\ IdleExport /\ IdleViz /\ IdleSweep
InitX == IdleGeom /\ IdleArea /\ IdlePlot /\ InitExportCall /\ IdleViz /\ IdleSweep
InitV == IdleGeom /\ IdleArea /\ IdlePlot /\ IdleExport /\ InitVizCall /\ IdleSweep
InitS == IdleGeom /\ IdleArea /\ IdlePlot /\ IdleExport /\ IdleViz /\ InitSweepRun

\* A call of compute_projected_area and a call of plot_force_coefficients,
\* both pending.
InitParams ==
    /\ amesh \in {[cells |-> {}, dup |-> 1],
                  [cells |-> Surface({<<0, 0, 0>>}), dup |-> 1],
                  [cells |-> Surface({<<0, 0, 0>>, <<1, 0, 0>>}), dup |-> 501]}
    /\ file \in {<<>>,
                 [k \in 1..HeaderLines |-> CommentLine] \o <<ExampleRow>>,
                 [k \in 1..HeaderLines |-> CommentLine] \o <<ExampleRow, WordRow>>}
    /\ IdleGeom
    /\ InitAreaCall
    /\ InitPlotCall
    /\ IdleExport
    /\ IdleViz
    /\ IdleSweep

Init == InitG \/ InitA \/ InitP \/ InitX \/ InitV \/ InitS
Next == NextGeom \/ NextArea \/ NextPlot \/ NextExport \/ NextViz \/ NextSweep

SpecGeom == InitG /\ [][NextGeom]_vars
SpecArea == InitA /\ [][NextArea]_vars
SpecPlot == InitP /\ [][NextPlot]_vars
SpecParams == InitParams /\ [][NextArea \/ NextPlot]_vars
SpecExport == InitX /\ [][NextExport]_vars
SpecViz == InitV /\ [][NextViz]_vars
SpecSweep == InitS /\ [][NextSweep]_vars
Spec == Init /\ [][Next]_vars

----------------------------------------------------------------------------
\* Claims about the geometry normaliser.

LastOp == ops[Len(ops)]
AfterOp(name) == gpc = "ready" /\ ops # <<>> /\ LastOp = name

\* The extent of every axis is within its target.
Fits(m, dims) == \A i \in 1..3 : Extents(m)[i] <= dims[i] * m.den
\* Some axis' extent is its target exactly.
Touches(m, dims) == \E i \in 1..3 : Extents(m)[i] = dims[i] * m.den
\* The lowest point is on z = 0 and the x and y bounding midpoints are 0.
AtOrigin(m) ==
    LET b == Bounds(m) IN b[5] = 0 /\ b[1] + b[2] = 0 /\ b[3] + b[4] = 0

\* Mesh b is mesh a with every point multiplied by the rational f.
IsScaled(a, b, f) ==
    /\ \A p \in a.pts : \E q \in b.pts : \A k \in 1..3 :
           q[k] * a.den * f[2] = p[k] * f[1] * b.den
    /\ \A q \in b.pts : \E p \in a.pts : \A k \in 1..3 :
           q[k] * a.den * f[2] = p[k] * f[1] * b.den

\* Mesh b is mesh a with the vector v added to every point.
IsTranslated(a, b, v) ==
    /\ \A p \in a.pts : \E q \in b.pts : \A k \in 1..3 :
           q[k] * a.den * v.den = (p[k] * v.den + v.num[k] * a.den) * b.den
    /\ \A q \in b.pts : \E p \in a.pts : \A k \in 1..3 :
           q[k] * a.den * v.den = (p[k] * v.den + v.num[k] * a.den) * b.den

\* C1: after normalize_mesh on a mesh with positive extents, the returned
\* factor is the least of the three ratios target/extent (it is at most each
\* ratio and equal to one of them), the returned mesh is the input with every
\* point multiplied by that factor, no axis of it exceeds its target and at
\* least one axis equals its target.
C1_NormalizeFits ==
    AfterOp("normalize") =>
        LET e == Extents(prev)
            f == ret.factor
        IN  /\ ret.kind = "factor"
            /\ \A i \in 1..3 : e[i] > 0 /\ max_dimensions[i] > 0
            /\ \A i \in 1..3 : f[1] * e[i] <= max_dimensions[i] * prev.den * f[2]
            /\ \E i \in 1..3 : f[1] * e[i] = max_dimensions[i] * prev.den * f[2]
            /\ IsScaled(prev, mesh, f)
            /\ Fits(mesh, max_dimensions)
            /\ Touches(mesh, max_dimensions)

\* A normalisation by a factor that is no integer and in which one axis is
\* strictly more restrictive than another.
C1_Witness ==
    /\ AfterOp("normalize")
    /\ ret.factor[2] > 1
    /\ \E i \in 1..3 : Extents(mesh)[i] < max_dimensions[i] * mesh.den

\* C2: move_mesh_to_origin returns a mesh whose lowest z is 0 and whose x and
\* y bounding midpoints are 0, with the translation (-x_mid, -y_mid, -z_min)
\* of the input that it applied; a second application right after the first
\* returns the displacement (0, 0, 0) and leaves the points unchanged.
C2_MoveToOrigin ==
    AfterOp("move") =>
        LET b == Bounds(prev)
            v == ret.vector
        IN  /\ ret.kind = "displacement"
            /\ AtOrigin(mesh)
            /\ v.num[1] * 2 * prev.den = (0 - (b[1] + b[2])) * v.den
            /\ v.num[2] * 2 * prev.den = (0 - (b[3] + b[4])) * v.den
            /\ v.num[3] * prev.den = (0 - b[5]) * v.den
            /\ IsTranslated(prev, mesh, v)
            /\ (Len(ops) >= 2 /\ ops[Len(ops) - 1] = "move") =>
                   v.num = <<0, 0, 0>> /\ mesh = prev

\* A second move right after a first one that moved the mesh by half a unit.
C2_Witness ==
    /\ AfterOp("move")
    /\ Len(ops) >= 2
    /\ ops[Len(ops) - 1] = "move"
    /\ ~AtOrigin(orig)
    /\ mesh.den = 2

\* C9 as claimed: scale then translate ends at the origin within the
\* envelope, and translate then scale (of a mesh that started off the origin,
\* by a factor other than 1) ends off the origin.
C9_OrderMatters ==
    /\ (gpc = "ready" /\ ops = <<"normalize", "move">>) =>
           AtOrigin(mesh) /\ Fits(mesh, max_dimensions)
    /\ (/\ gpc = "ready"
        /\ ops = <<"move", "normalize">>
        /\ ~AtOrigin(orig)
        /\ ret.factor # <<1, 1>>) => ~AtOrigin(mesh)

\* C9 as amended: for a mesh with positive extents, both orders end at the
\* origin within the envelope, and with the same mesh: normalize_mesh scales
\* about the coordinate origin, which a mesh already moved there keeps.
C9_BothOrdersAtOrigin ==
    /\ (gpc = "ready" /\ ops = <<"normalize", "move">>) =>
           AtOrigin(mesh) /\ Fits(mesh, max_dimensions)
    /\ (gpc = "ready" /\ ops = <<"move", "normalize">>) =>
           /\ AtOrigin(mesh)
           /\ Fits(mesh, max_dimensions)
           /\ LET scaled == Scale(orig, GetScalingFactor(orig, max_dimensions))
              IN  mesh = Translate(scaled, DisplaceVector(scaled))

\* Translate then scale, from a mesh that was off the origin, by a factor
\* other than 1.
C9_Witness ==
    /\ gpc = "ready"
    /\ ops = <<"move", "normalize">>
    /\ ~AtOrigin(orig)
    /\ ret.factor # <<1, 1>>
    /\ AtOrigin(mesh)

----------------------------------------------------------------------------
\* Claims about compute_projected_area.

\* The silhouette, computed from the geometry of the cells alone: a quarter
\* square is covered by a projected cell when its centroid is strictly on one
\* side of every edge of the cell.  Coordinates are in sixths of a unit.
QuarterCentroid(q) ==
    CASE q[3] = "S" -> <<6 * q[1] + 3, 6 * q[2] + 1>>
      [] q[3] = "N" -> <<6 * q[1] + 3, 6 * q[2] + 5>>
      [] q[3] = "W" -> <<6 * q[1] + 1, 6 * q[2] + 3>>
      [] q[3] = "E" -> <<6 * q[1] + 5, 6 * q[2] + 3>>

EdgeSide(a, b, pt) ==
    (6 * b[1] - 6 * a[1]) * (pt[2] - 6 * a[2])
        - (6 * b[2] - 6 * a[2]) * (pt[1] - 6 * a[1])

Covers(c2, q) ==
    LET n == Len(c2)
        side(i) == EdgeSide(c2[i], c2[(i % n) + 1], QuarterCentroid(q))
    IN  \/ \A i \in 1..n : side(i) > 0
        \/ \A i \in 1..n : side(i) < 0

\* The two coordinates the projection on an axis keeps.
Drop(c, plane) ==
    [i \in 1..Len(c) |->
        CASE plane = "X" -> <<c[i][2], c[i][3]>>
          [] plane = "Y" -> <<c[i][1], c[i][3]>>
          [] plane = "Z" -> <<c[i][1], c[i][2]>>]

\* The quarters of the unit squares within the bounding box of a flat cell.
Nearby(c2) ==
    LET xs == {c2[i][1] : i \in 1..Len(c2)}
        ys == {c2[i][2] : i \in 1..Len(c2)}
    IN  (SetMin(xs)..(SetMax(xs) - 1)) \X (SetMin(ys)..(SetMax(ys) - 1))
            \X {"S", "E", "N", "W"}

Shadow(c, plane) ==
    LET c2 == Drop(c, plane) IN {q \in Nearby(c2) : Covers(c2, q)}

Shadows(m, plane) == [c \in m.cells |-> Shadow(c, plane)]

Silhouette(m, plane) == UNION {Shadow(c, plane) : c \in m.cells}

\* Two of the mesh's projected triangles share a region of positive area.
Overlaps(m, plane) ==
    LET sh == Shadows(m, plane)
    IN  \/ m.dup > 1 /\ \E c \in m.cells : sh[c] # {}
        \/ \E s \in m.cells, t \in m.cells : s # t /\ sh[s] \cap sh[t] # {}

UnitCube == [cells |-> Surface({<<0, 0, 0>>}), dup |-> 1]
UPrism ==
    [cells |-> Surface({<<0, 0, 0>>, <<1, 0, 0>>, <<2, 0, 0>>, <<0, 1, 0>>,
                        <<2, 1, 0>>}),
     dup |-> 1]

\* C3: the value returned is the area of the union of the projected triangles
\* of the mesh that was projected, every region counted once: it is the
\* silhouette of that mesh, and of the input mesh when the input has at most
\* NUM_DECIMATION_CELLS cells (nothing is decimated away); it is less than
\* the sum of the triangles' areas exactly when two of them overlap; it is 1
\* (4 quarters) for the unit cube on Z and 5 (20 quarters) for the U-shaped
\* prism on Z.
C3_UnionNotSum ==
    apc = "done" =>
        LET overlap == Overlaps(projected, projection_plane)
            sum == SumArea(projected, projection_plane)
        IN
        /\ area.kind = "area"
        /\ area.quarters = Cardinality(Silhouette(projected, projection_plane))
        /\ NCells(amesh) <= NUM_DECIMATION_CELLS =>
               area.quarters = Cardinality(Silhouette(amesh, projection_plane))
        /\ overlap => area.quarters < sum
        /\ ~overlap => area.quarters = sum
        /\ (amesh = UnitCube /\ projection_plane = "Z") => area.quarters = 4
        /\ (amesh = UPrism /\ projection_plane = "Z") => area.quarters = 20

\* The U-shaped prism on Z: the top and bottom faces overlap, the notch is
\* not covered, and the area is 5 where the sum of the triangles is 10.
C3_Witness ==
    /\ apc = "done"
    /\ amesh = UPrism
    /\ projection_plane = "Z"
    /\ area.quarters = 20
    /\ SumArea(projected, projection_plane) = 40
    /\ <<1, 1, "S">> \notin Silhouette(amesh, projection_plane)

Called(name) == \E i \in DOMAIN calls : calls[i] = name

\* C4: triangulate and decimate are invoked only on a mesh of more than
\* NUM_DECIMATION_CELLS cells, and a mesh of at most that many cells is
\* projected as it was given.
C4_DecimateOnlyAboveThreshold ==
    apc = "done" =>
        /\ (Called("triangulate") \/ Called("decimate")) =>
               NCells(amesh) > NUM_DECIMATION_CELLS
        /\ NCells(amesh) <= NUM_DECIMATION_CELLS => projected = amesh

----------------------------------------------------------------------------
\* Claims about plot_force_coefficients and about invalid parameters.

\* The column the claim gives to a name, whatever its case.
ClaimedColumn(name) ==
    CASE name \in {"Moment", "moment"} -> 1
      [] name \in {"Drag", "DRAG", "drag"} -> 2
      [] name \in {"Lift", "lift"} -> 3
      [] name \in {"Front Lift", "front lift"} -> 4
      [] name \in {"REAR LIFT", "rear lift"} -> 5

ValidName(name) ==
    name \in {"Moment", "moment", "Drag", "DRAG", "drag", "Lift", "lift",
              "Front Lift", "front lift", "REAR LIFT", "rear lift"}

\* A data row: six numbers.
DataRow(line) ==
    Len(Split(line)) = 6 /\ \A k \in 1..6 : IsNumber(Split(line)[k])

\* C6: on a file of 9 header lines of any content followed by n data rows,
\* with a valid name in any case, the call ends with the plot and with series
\* of exactly n entries in file order, time[i] the first column of row i and
\* coeff[i] the column of the name (moment 1, drag 2, lift 3, front lift 4,
\* rear lift 5, counted from 0).
C6_SkipsNineLines ==
    (/\ ppc \in {"plotted", "raised"}
     /\ ValidName(coefficient)
     /\ Len(file) >= 9
     /\ \A i \in 10..Len(file) : DataRow(file[i])) =>
        /\ ppc = "plotted"
        /\ Len(time) = Len(file) - 9
        /\ Len(coeff) = Len(file) - 9
        /\ \A i \in 1..(Len(file) - 9) :
               /\ time[i] = Float(Split(file[9 + i])[1])
               /\ coeff[i] = Float(Split(file[9 + i])[ClaimedColumn(coefficient) + 1])

\* A header no line of which parses, then the two data rows, read for "DRAG".
C6_Witness ==
    /\ ppc = "plotted"
    /\ coefficient = "DRAG"
    /\ file[1] = WordRow
    /\ file[2] = BlankLine
    /\ time = <<1, 2>>
    /\ coeff = <<12, 5>>

\* C7: a projection plane other than X, Y, Z raises the invalid-input error
\* before the mesh is read, triangulated, decimated or projected, and a
\* coefficient name other than the five raises it before the file is opened.
C7_InvalidParametersFirst ==
    /\ (apc \in {"done", "raised"} /\ projection_plane \notin {"X", "Y", "Z"}) =>
           /\ apc = "raised"
           /\ area = [kind |-> "ValueError"]
           /\ calls = <<>>
           /\ projected = [cells |-> {}, dup |-> 1]
    /\ (ppc \in {"plotted", "raised"} /\ ~ValidName(coefficient)) =>
           /\ ppc = "raised"
           /\ perr = "ValueError"
           /\ ~opened
           /\ time = <<>>
           /\ coeff = <<>>

\* Both calls made with an invalid parameter, on a mesh with cells and on a
\* file that parses.
C7_Witness ==
    /\ apc = "raised"
    /\ projection_plane = "x"
    /\ amesh.cells # {}
    /\ ppc = "raised"
    /\ coefficient = "front_lift"
    /\ Len(file) > 9
    /\ ~opened

----------------------------------------------------------------------------
\* Claims about save_mesh_obj, the walls and the sweep.

\* C5: a mesh with a cell that is neither a triangle nor a quad, wherever the
\* cell is, never reaches the export, and only a mesh whose cells are all
\* triangles or all quads does.
C5_UnsupportedNeverExported ==
    xpc \in {"exported", "raised"} =>
        /\ (\E k \in 1..Len(xmesh) : Len(xmesh[k]) \notin {3, 4}) =>
               xpc = "raised" /\ exported = <<>>
        /\ xpc = "exported" =>
               \/ \A k \in 1..Len(xmesh) : Len(xmesh[k]) = 3
               \/ \A k \in 1..Len(xmesh) : Len(xmesh[k]) = 4

\* pv.Plane(center, direction, i_size, j_size): the extent of the panel along
\* x, y and z.
PanelExtent(plane) ==
    CASE plane.direction = <<1, 0, 0>> -> <<0, plane.j_size, plane.i_size>>
      [] plane.direction = <<0, 1, 0>> -> <<plane.j_size, 0, plane.i_size>>
      [] plane.direction = <<0, 0, 1>> -> <<plane.i_size, plane.j_size, 0>>

\* The panel on the face of the box across the axis (1, 2, 3 for x, y, z) at
\* the low or the high side: centred on the face, of the face's two extents.
OnFace(plane, b, axis, high) ==
    LET at == IF high THEN b[2 * axis] ELSE b[2 * axis - 1]
    IN  /\ plane.direction = [k \in 1..3 |-> IF k = axis THEN 1 ELSE 0]
        /\ \A k \in 1..3 :
               /\ plane.center2[k] =
                      IF k = axis THEN 2 * at ELSE b[2 * k - 1] + b[2 * k]
               /\ PanelExtent(plane)[k] =
                      IF k = axis THEN 0 ELSE b[2 * k] - b[2 * k - 1]

Panels == {k \in 1..Len(scene) : scene[k].kind = "plane"}
PanelsOn(axis, high) ==
    {k \in Panels : OnFace(scene[k].plane, box, axis, high)}

\* C8 as claimed: six panels, one on every face of the box.
C8_SixWalls ==
    vpc = "built" =>
        /\ Cardinality(Panels) = 6
        /\ \A axis \in 1..3 : \A high \in BOOLEAN :
               Cardinality(PanelsOn(axis, high)) = 1

\* C8 as amended: exactly four panels, one on each of the faces x = x_min,
\* x = x_max, y = y_min and z = z_min, each centred on its face and of the
\* face's two extents; none on y = y_max or z = z_max.
C8_FourWalls ==
    vpc = "built" =>
        /\ Cardinality(Panels) = 4
        /\ Cardinality(PanelsOn(1, FALSE)) = 1
        /\ Cardinality(PanelsOn(1, TRUE)) = 1
        /\ Cardinality(PanelsOn(2, FALSE)) = 1
        /\ Cardinality(PanelsOn(3, FALSE)) = 1
        /\ PanelsOn(2, TRUE) = {}
        /\ PanelsOn(3, TRUE) = {}

\* A scene built for a box of three different extents, off centre.
C8_Witness ==
    /\ vpc = "built"
    /\ box = <<0 - 2, 1, 0 - 1, 1, 0, 1>>
    /\ Len(scene) = 5

\* C10: when the machine group is terminated, 41 tasks have been submitted,
\* for the angles -20 to 20 in that order, each was waited for, and each has
\* its angle_of_attack metadata set to its angle.
C10_SweepSetsMetadata ==
    machine = "terminated" =>
        /\ Len(submitted) = 41
        /\ \A k \in 1..Len(submitted) :
               /\ submitted[k].angle = k - 21
               /\ submitted[k].status = "done"
               /\ submitted[k].metadata = <<"angle_of_attack", submitted[k].angle>>

=============================================================================
